---- MODULE Spec2Model ----
(***************************************************************************)
(* Model of the chat store service of src/server.js: the "chats"          *)
(* collection and the four request handlers (list, save, delete, edit a   *)
(* message).  Every store call (find, updateOne, deleteOne, findOne) is   *)
(* one atomic step; the edit handler is two steps, its findOne and its    *)
(* updateOne, and any other request may run between them.  Store calls    *)
(* are taken to complete: a store outage (the handlers' catch blocks      *)
(* answering 500 for a driver error) is not part of the model; the 500    *)
(* answers that a TypeError inside the edit handler produces are.         *)
(***************************************************************************)
EXTENDS Integers, Sequences, FiniteSets, TLC

(* ----------------------------- bounds --------------------------------- *)

\* Requests the service accepts in one behaviour.
MaxRequests == 3

\* Longest :messageIndex path segment.
MaxIndexLen == 2

(* ----------------------------- inputs --------------------------------- *)

\* Concurrent edit requests (between their findOne and their updateOne).
Handlers == {1, 2}

\* Characters of a :messageIndex path segment.  A string is a sequence of
\* one-character strings, so that the conversions below can scan it.
IndexChars == {"0", "1", "-", "a"}

Digits == {"0", "1", "2", "3", "4", "5", "6", "7", "8", "9"}

SeqsUpTo(S, n) == UNION {[1..k -> S] : k \in 0..n}

IndexStrings == SeqsUpTo(IndexChars, MaxIndexLen) \ {<<>>}

Msg(c) == [role |-> "user", content |-> c]

\* Optional payload fields; userId and id are always carried.
OptionalFields == {"_id", "createdAt", "messages"}

\* Request bodies of POST /chats: userId and id from users and chatIds, and
\* any subset of the optional fields, with values from the sets given.
PayloadsOf(users, chatIds, ids, createdAts, messageArrays) ==
    {[f \in {"userId", "id"} \cup fs |-> full[f]] :
        full \in [userId : users, id : chatIds, _id : ids,
                  createdAt : createdAts, messages : messageArrays],
        fs \in SUBSET OptionalFields}

(* ------------------- JavaScript conversions --------------------------- *)

DigitVal(c) ==
    CASE c = "0" -> 0 [] c = "1" -> 1 [] c = "2" -> 2 [] c = "3" -> 3
      [] c = "4" -> 4 [] c = "5" -> 5 [] c = "6" -> 6 [] c = "7" -> 7
      [] c = "8" -> 8 [] c = "9" -> 9

AllDigits(s) == \A k \in 1..Len(s) : s[k] \in Digits

RECURSIVE DigitsValue(_)
\* The value of a (possibly empty) run of decimal digits.
DigitsValue(s) ==
    IF s = <<>> THEN 0
    ELSE 10 * DigitsValue(SubSeq(s, 1, Len(s) - 1)) + DigitVal(s[Len(s)])

RECURSIVE Pow10(_)
Pow10(n) == IF n = 0 THEN 1 ELSE 10 * Pow10(n - 1)

RECURSIVE DigitPrefix(_)
\* The longest prefix of s made of digits.
DigitPrefix(s) ==
    IF s = <<>> \/ s[1] \notin Digits THEN <<>>
    ELSE <<s[1]>> \o DigitPrefix(Tail(s))

NaN == [nan |-> TRUE, num |-> 0, scale |-> 0]

\* A Number: num / 10^scale, or NaN.
Num(n, k) == [nan |-> FALSE, num |-> n, scale |-> k]

\* ToNumber applied to a string, as the relational operators of the index
\* check apply it to messageIndex: an optional "-", then digits with an
\* optional fraction ("1", "1.", ".5", "1.5"); anything else is NaN.
ToNumber(s) ==
    LET neg  == s # <<>> /\ s[1] = "-"
        body == IF neg THEN Tail(s) ELSE s
        dots == {k \in 1..Len(body) : body[k] = "."}
        sign == IF neg THEN -1 ELSE 1
    IN IF dots = {}
       THEN IF body # <<>> /\ AllDigits(body)
            THEN Num(sign * DigitsValue(body), 0)
            ELSE NaN
       ELSE LET d  == CHOOSE k \in dots : TRUE
                ip == SubSeq(body, 1, d - 1)
                fp == SubSeq(body, d + 1, Len(body))
            IN IF Cardinality(dots) = 1 /\ AllDigits(ip) /\ AllDigits(fp)
                  /\ Len(ip) + Len(fp) > 0
               THEN Num(sign * DigitsValue(ip \o fp), Len(fp))
               ELSE NaN

\* x < n and x >= n for a Number x and an integer n; false when x is NaN.
NumLess(x, n) == ~x.nan /\ x.num < n * Pow10(x.scale)

NumGeq(x, n) == ~x.nan /\ x.num >= n * Pow10(x.scale)

\* parseInt(s): an optional "-", then the longest run of digits; NaN when
\* there is no digit.  The result is an integer, so scale is 0.
ParseInt(s) ==
    LET neg  == s # <<>> /\ s[1] = "-"
        body == IF neg THEN Tail(s) ELSE s
        ds   == DigitPrefix(body)
    IN IF ds = <<>> THEN NaN
       ELSE Num((IF neg THEN -1 ELSE 1) * DigitsValue(ds), 0)

(* --------------------------- the store -------------------------------- *)

VARIABLES
    chats,    \* the "chats" collection: a set of documents (records)
    nextId,   \* the store's next _id
    edits,    \* per edit handler: its request, the chat it read, its answer
    last,     \* the last request answered by list, save or delete, with its response
    served    \* requests accepted so far

vars == <<chats, nextId, edits, last, served>>

\* The documents a filter {userId: u, id: c} matches.
Match(coll, u, c) == {d \in coll : d.userId = u /\ d.id = c}

\* The first match in natural (insertion) order.
First(S) == CHOOSE d \in S : \A e \in S : d._id <= e._id

\* {$set: set} applied to document d: the fields of set overwrite or extend
\* d, the other fields of d stay.
SetFields(d, set) ==
    [f \in DOMAIN d \cup DOMAIN set |-> IF f \in DOMAIN set THEN set[f] ELSE d[f]]

\* Variant of StripId: the payload is passed on with its _id.
StripIdKeep(chatData) == chatData

\* const { _id, ...chatDataWithoutId } = chatData
StripId(chatData) == [f \in DOMAIN chatData \ {"_id"} |-> chatData[f]]

\* Variant of UpdateOne: an upsert that inserts without looking for a match.
UpdateOneAlwaysInsert(coll, u, c, set, upsert, newId) ==
    IF upsert
    THEN [coll |-> coll \cup
                     {SetFields([_id |-> newId, userId |-> u, id |-> c], set)},
          matchedCount |-> 0, modifiedCount |-> 0, upsertedId |-> <<newId>>]
    ELSE LET m == Match(coll, u, c)
         IN IF m = {}
            THEN [coll |-> coll, matchedCount |-> 0, modifiedCount |-> 0,
                  upsertedId |-> <<>>]
            ELSE LET d == First(m)
                     e == SetFields(d, set)
                 IN [coll |-> (coll \ {d}) \cup {e}, matchedCount |-> 1,
                     modifiedCount |-> IF e = d THEN 0 ELSE 1,
                     upsertedId |-> <<>>]

\* Variant of UpdateOne: modifiedCount counts the documents matched.
UpdateOneCountsMatched(coll, u, c, set, upsert, newId) ==
    LET m == Match(coll, u, c)
    IN IF m # {}
       THEN LET d == First(m)
                e == SetFields(d, set)
            IN [coll |-> (coll \ {d}) \cup {e}, matchedCount |-> 1,
                modifiedCount |-> 1, upsertedId |-> <<>>]
       ELSE IF upsert
            THEN [coll |-> coll \cup
                             {SetFields([_id |-> newId, userId |-> u, id |-> c], set)},
                  matchedCount |-> 0, modifiedCount |-> 0, upsertedId |-> <<newId>>]
            ELSE [coll |-> coll, matchedCount |-> 0, modifiedCount |-> 0,
                  upsertedId |-> <<>>]

\* updateOne({userId: u, id: c}, {$set: set}, {upsert}) as one atomic
\* operation: the first match is updated in place; with no match and upsert
\* a document made of the filter's fields, the $set fields and a fresh _id
\* is inserted.  modifiedCount counts documents the update changed.
UpdateOne(coll, u, c, set, upsert, newId) ==
    LET m == Match(coll, u, c)
    IN IF m # {}
       THEN LET d == First(m)
                e == SetFields(d, set)
            IN [coll |-> (coll \ {d}) \cup {e}, matchedCount |-> 1,
                modifiedCount |-> IF e = d THEN 0 ELSE 1, upsertedId |-> <<>>]
       ELSE IF upsert
            THEN [coll |-> coll \cup
                             {SetFields([_id |-> newId, userId |-> u, id |-> c], set)},
                  matchedCount |-> 0, modifiedCount |-> 0, upsertedId |-> <<newId>>]
            ELSE [coll |-> coll, matchedCount |-> 0, modifiedCount |-> 0,
                  upsertedId |-> <<>>]

\* Variant of DeleteOne: the filter names the user only.
DeleteOneAnyChat(coll, u, c) ==
    LET m == {d \in coll : d.userId = u}
    IN IF m # {} THEN [coll |-> coll \ {First(m)}, deletedCount |-> 1]
       ELSE [coll |-> coll, deletedCount |-> 0]

\* deleteOne({userId: u, id: c})
DeleteOne(coll, u, c) ==
    LET m == Match(coll, u, c)
    IN IF m # {} THEN [coll |-> coll \ {First(m)}, deletedCount |-> 1]
       ELSE [coll |-> coll, deletedCount |-> 0]

\* findOne({userId: u, id: c}): <<>> for null, else <<document>>.
FindOne(coll, u, c) ==
    LET m == Match(coll, u, c) IN IF m # {} THEN <<First(m)>> ELSE <<>>

\* find({userId: u})
Find(coll, u) == {d \in coll : d.userId = u}

\* The sort key of a document for {createdAt: -1}: a missing field sorts as
\* null, below every number.
SortKey(d) == IF "createdAt" \in DOMAIN d THEN d.createdAt ELSE -1

\* Variant of SortDesc: ascending keys.
SortAsc(S) ==
    {r \in [1..Cardinality(S) -> S] :
        /\ \A d \in S : \E k \in DOMAIN r : r[k] = d
        /\ \A k \in 1..(Cardinality(S) - 1) : SortKey(r[k]) <= SortKey(r[k + 1])}

\* sort({createdAt: -1}).toArray(): the arrays holding each document of S
\* once, keys non-increasing; the order among equal keys is the store's.
SortDesc(S) ==
    {r \in [1..Cardinality(S) -> S] :
        /\ \A d \in S : \E k \in DOMAIN r : r[k] = d
        /\ \A k \in 1..(Cardinality(S) - 1) : SortKey(r[k]) >= SortKey(r[k + 1])}

(* ------------------------- the handlers ------------------------------- *)

Idle == [pc |-> "idle"]

Init ==
    /\ chats = {}
    /\ nextId = 1
    /\ edits = [h \in Handlers |-> Idle]
    /\ last = [op |-> "none"]
    /\ served = 0

Accept == served < MaxRequests /\ served' = served + 1

\* GET /chats/:userId
List(userId) ==
    /\ Accept
    /\ \E body \in SortDesc(Find(chats, userId)) :
          last' = [op |-> "list", userId |-> userId, status |-> 200, body |-> body]
    /\ UNCHANGED <<chats, nextId, edits>>

\* POST /chats
Save(chatData) ==
    /\ Accept
    /\ LET result == UpdateOne(chats, chatData.userId, chatData.id,
                               StripId(chatData), TRUE, nextId)
       IN /\ chats' = result.coll
          /\ nextId' = IF result.upsertedId # <<>> THEN nextId + 1 ELSE nextId
          /\ last' = [op |-> "save", chatData |-> chatData, status |-> 200,
                      message |-> "Chat saved/updated successfully",
                      upsertedId |-> result.upsertedId,
                      modifiedCount |-> result.modifiedCount]
    /\ UNCHANGED edits

\* DELETE /chats/:userId/:chatId
Delete(userId, chatId) ==
    /\ Accept
    /\ LET result == DeleteOne(chats, userId, chatId)
       IN /\ chats' = result.coll
          /\ last' = IF result.deletedCount = 1
                     THEN [op |-> "delete", userId |-> userId, chatId |-> chatId,
                           status |-> 200, message |-> "Chat deleted successfully"]
                     ELSE [op |-> "delete", userId |-> userId, chatId |-> chatId,
                           status |-> 404, message |-> "Chat not found"]
    /\ UNCHANGED <<nextId, edits>>

\* Variant of InvalidIndex: the upper bound alone.
InvalidIndexNoLower(messageIndex, length) ==
    NumGeq(ToNumber(messageIndex), length)

\* messageIndex < 0 || messageIndex >= chat.messages.length, on the raw
\* path segment: each comparison converts the string with ToNumber.
InvalidIndex(messageIndex, length) ==
    NumLess(ToNumber(messageIndex), 0) \/ NumGeq(ToNumber(messageIndex), length)

\* messages[k] for a Number k: <<>> for undefined, else <<position>> (the
\* 1-based position in the sequence).
At(messages, k) ==
    IF ~k.nan /\ k.num >= 0 /\ k.num < Len(messages) THEN <<k.num + 1>> ELSE <<>>

\* Variant of SetContent: the message is replaced by one holding the content.
SetContentReplace(messages, pos, content) ==
    [messages EXCEPT ![pos] = [content |-> content]]

\* chat.messages[parseInt(messageIndex)].content = content
SetContent(messages, pos, content) ==
    [messages EXCEPT ![pos] = [f \in DOMAIN @ \cup {"content"} |->
                                 IF f = "content" THEN content ELSE @[f]]]

Answered(userId, chatId, messageIndex, content, status, message) ==
    [pc |-> "done", userId |-> userId, chatId |-> chatId,
     messageIndex |-> messageIndex, content |-> content,
     status |-> status, message |-> message]

\* PUT /chats/:userId/:chatId/messages/:messageIndex, up to the await of
\* updateOne: findOne, the checks and the change of the array read.  The
\* handler's variable chat is the document read with that change; read is
\* a history field, the document as findOne returned it, which the
\* properties compare the store with.
EditRead(h, userId, chatId, messageIndex, content) ==
    /\ edits[h].pc # "write"
    /\ Accept
    /\ LET found == FindOne(chats, userId, chatId)
           Answer(status, message) ==
               Answered(userId, chatId, messageIndex, content, status, message)
       IN edits' = [edits EXCEPT ![h] =
            IF found = <<>> THEN Answer(404, "Chat not found")
            ELSE LET chat == found[1]
                 IN IF "messages" \notin DOMAIN chat
                    THEN \* chat.messages.length throws a TypeError
                         Answer(500, "Failed to update chat")
                    ELSE IF InvalidIndex(messageIndex, Len(chat.messages))
                    THEN Answer(400, "Invalid message index")
                    ELSE LET at == At(chat.messages, ParseInt(messageIndex))
                         IN IF at = <<>>
                            THEN \* undefined.content = ... throws a TypeError
                                 Answer(500, "Failed to update chat")
                            ELSE [pc |-> "write", userId |-> userId,
                                  chatId |-> chatId,
                                  messageIndex |-> messageIndex,
                                  content |-> content, read |-> chat,
                                  chat |-> [chat EXCEPT !.messages =
                                              SetContent(@, at[1], content)]]]
    /\ UNCHANGED <<chats, nextId, last>>

\* Variant of EditWrite: the update is an upsert.
EditWriteUpsert(h) ==
    /\ edits[h].pc = "write"
    /\ LET e == edits[h]
           result == UpdateOne(chats, e.userId, e.chatId,
                               [messages |-> e.chat.messages], TRUE, nextId)
       IN /\ chats' = result.coll
          /\ edits' = [edits EXCEPT ![h] =
                IF result.modifiedCount = 1
                THEN Answered(e.userId, e.chatId, e.messageIndex, e.content,
                              200, "Message updated successfully")
                ELSE Answered(e.userId, e.chatId, e.messageIndex, e.content,
                              404, "Chat not updated")]
    /\ UNCHANGED <<nextId, last, served>>

\* Variant of EditWrite: a positional update of the one message's content
\* in the stored array.
EditWritePositional(h) ==
    /\ edits[h].pc = "write"
    /\ LET e == edits[h]
           m == Match(chats, e.userId, e.chatId)
           at == At(e.chat.messages, ParseInt(e.messageIndex))
           result ==
               IF m # {} /\ "messages" \in DOMAIN First(m)
                         /\ at[1] <= Len(First(m).messages)
               THEN UpdateOne(chats, e.userId, e.chatId,
                              [messages |-> SetContent(First(m).messages, at[1],
                                                       e.content)],
                              FALSE, nextId)
               ELSE [coll |-> chats, matchedCount |-> 0, modifiedCount |-> 0,
                     upsertedId |-> <<>>]
       IN /\ chats' = result.coll
          /\ edits' = [edits EXCEPT ![h] =
                IF result.modifiedCount = 1
                THEN Answered(e.userId, e.chatId, e.messageIndex, e.content,
                              200, "Message updated successfully")
                ELSE Answered(e.userId, e.chatId, e.messageIndex, e.content,
                              404, "Chat not updated")]
    /\ UNCHANGED <<nextId, last, served>>

\* The rest of the edit handler: updateOne with the whole array, and the
\* answer from modifiedCount.
EditWrite(h) ==
    /\ edits[h].pc = "write"
    /\ LET e == edits[h]
           result == UpdateOne(chats, e.userId, e.chatId,
                               [messages |-> e.chat.messages], FALSE, nextId)
       IN /\ chats' = result.coll
          /\ edits' = [edits EXCEPT ![h] =
                IF result.modifiedCount = 1
                THEN Answered(e.userId, e.chatId, e.messageIndex, e.content,
                              200, "Message updated successfully")
                ELSE Answered(e.userId, e.chatId, e.messageIndex, e.content,
                              404, "Chat not updated")]
    /\ UNCHANGED <<nextId, last, served>>

\* The service under the requests of the given input sets.
Service(users, chatIds, payloads, indexes, contents, handlers) ==
    \/ \E u \in users : List(u)
    \/ \E p \in payloads : Save(p)
    \/ \E u \in users, c \in chatIds : Delete(u, c)
    \/ \E h \in handlers, u \in users, c \in chatIds, i \in indexes,
          v \in contents : EditRead(h, u, c, i, v)
    \/ \E h \in handlers : EditWrite(h)

\* Two users with two chats each; payloads with or without _id, createdAt
\* and messages; one edit at a time.
Next ==
    Service({"u1", "u2"}, {"c1", "c2"},
            PayloadsOf({"u1", "u2"}, {"c1", "c2"}, {1}, {1, 2},
                       {<<Msg("a"), Msg("b")>>}),
            {<<"0">>, <<"1">>}, {"c"}, {1})

Spec == Init /\ [][Next]_vars

\* One chat of up to two messages; one edit at a time, with
\* every :messageIndex string.
NextIndex ==
    Service({"u1"}, {"c1"},
            PayloadsOf({"u1"}, {"c1"}, {1}, {1},
                       {<<>>, <<Msg("a")>>, <<Msg("a"), Msg("b")>>}),
            IndexStrings, {"c"}, {1})

SpecIndex == Init /\ [][NextIndex]_vars

\* One chat of two messages and two concurrent edits.
NextRace ==
    Service({"u1"}, {"c1"},
            PayloadsOf({"u1"}, {"c1"}, {1}, {1}, {<<Msg("a"), Msg("a")>>}),
            {<<"0">>, <<"1">>}, {"a", "b"}, Handlers)

SpecRace == Init /\ [][NextRace]_vars

(* ---------------------------- properties ------------------------------ *)

\* The (userId, id) pairs held by a collection.
Pairs(coll) == {<<d.userId, d.id>> : d \in coll}

\* The document of a pair that has one.
Doc(coll, u, c) == CHOOSE d \in Match(coll, u, c) : TRUE

\* The documents of the other pairs.
Others(coll, u, c) == coll \ Match(coll, u, c)

\* The step answers a save request (the request is kept in last').
SaveStep == served' = served + 1 /\ last'.op = "save" /\ Save(last'.chatData)

\* The step answers a delete request.
DeleteStep ==
    served' = served + 1 /\ last'.op = "delete"
    /\ Delete(last'.userId, last'.chatId)

\* The step answers a list request.
ListStep == served' = served + 1 /\ last'.op = "list" /\ List(last'.userId)

\* The step is handler h's findOne and checks.
ReadStep(h) ==
    /\ served' = served + 1
    /\ edits[h].pc # "write"
    /\ edits'[h].pc # "idle"
    /\ EditRead(h, edits'[h].userId, edits'[h].chatId, edits'[h].messageIndex,
                edits'[h].content)

NoDuplicates ==
    \A d \in chats, e \in chats : d.userId = e.userId /\ d.id = e.id => d = e

\* The step is a save for the pair that the request answered just before, a
\* save as well, created: two saves for an absent pair, applied one after
\* the other.
SecondSave ==
    /\ last.op = "save"
    /\ last.upsertedId # <<>>
    /\ SaveStep
    /\ last'.chatData.userId = last.chatData.userId
    /\ last'.chatData.id = last.chatData.id

\* C1 as stated: no two documents ever share (userId, id), and after two
\* saves for an absent pair the one document left has the content of the
\* save applied last: its fields, apart from the store's _id, are exactly
\* those of that payload minus _id.
C1_LastSaveIsContent ==
    /\ []NoDuplicates
    /\ [][SecondSave =>
            LET p == last'.chatData
                d == Doc(chats', p.userId, p.id)
            IN /\ Cardinality(Match(chats', p.userId, p.id)) = 1
               /\ [f \in DOMAIN d \ {"_id"} |-> d[f]] = StripId(p)]_vars

\* C1 amended: no two documents ever share (userId, id), and after two
\* saves for an absent pair there is one document for it, in which every
\* field the later payload carries (but _id) has that payload's value and
\* every other field, those only the earlier payload carried among them,
\* keeps the value it had before the later save.
C1_Unique ==
    /\ []NoDuplicates
    /\ [][SecondSave =>
            LET p == StripId(last'.chatData)
                old == Doc(chats, p.userId, p.id)
                d == Doc(chats', p.userId, p.id)
            IN /\ Cardinality(Match(chats, p.userId, p.id)) = 1
               /\ Cardinality(Match(chats', p.userId, p.id)) = 1
               /\ DOMAIN StripId(last.chatData) \subseteq DOMAIN d
               /\ DOMAIN d = DOMAIN p \cup DOMAIN old
               /\ \A f \in DOMAIN p : d[f] = p[f]
               /\ \A f \in DOMAIN old \ DOMAIN p : d[f] = old[f]]_vars

\* Two saves were applied to a pair that was absent, the later one without
\* a field the earlier one carried.
C1_Witness ==
    /\ served = 2
    /\ last.op = "save"
    /\ last.upsertedId = <<>>
    /\ Cardinality(chats) = 1
    /\ \E d \in chats : DOMAIN d \ {"_id"} # DOMAIN StripId(last.chatData)

\* C2: a save of payload P for (u, c).  With no document of (u, c), one
\* document is added: the fields of P except _id, under the store's own
\* _id.  With one, the count stays, that document keeps its _id, takes
\* every field of P except _id and keeps its other fields.  The documents
\* of the other pairs are unchanged.
C2_SaveEffect ==
    [][SaveStep =>
        LET p == last'.chatData
            u == p.userId
            c == p.id
            fs == DOMAIN p \ {"_id"}
        IN /\ Others(chats', u, c) = Others(chats, u, c)
           /\ Cardinality(Match(chats', u, c)) = 1
           /\ LET new == Doc(chats', u, c)
              IN /\ \A f \in fs : new[f] = p[f]
                 /\ IF Match(chats, u, c) = {}
                    THEN /\ Cardinality(chats') = Cardinality(chats) + 1
                         /\ DOMAIN new = fs \cup {"_id"}
                         /\ new._id = nextId
                         /\ new._id \notin {d._id : d \in chats}
                    ELSE LET old == Doc(chats, u, c)
                         IN /\ Cardinality(chats') = Cardinality(chats)
                            /\ new._id = old._id
                            /\ DOMAIN new = DOMAIN old \cup fs
                            /\ \A f \in DOMAIN old \ fs : new[f] = old[f]]_vars

\* A save carrying an _id other than the document's updated a document
\* that has a field the payload lacks, beside another document.
C2_Witness ==
    /\ last.op = "save"
    /\ last.upsertedId = <<>>
    /\ last.modifiedCount = 1
    /\ "_id" \in DOMAIN last.chatData
    /\ Cardinality(chats) = 2
    /\ LET d == Doc(chats, last.chatData.userId, last.chatData.id)
       IN /\ d._id # last.chatData._id
          /\ DOMAIN d \ DOMAIN last.chatData # {}

\* C3: a delete of (u, c).  With a document of (u, c), that document alone
\* is removed and the answer is 200 'Chat deleted successfully'; with none,
\* the collection is unchanged and the answer is 404 'Chat not found'.
C3_DeleteEffect ==
    [][DeleteStep =>
        LET u == last'.userId
            c == last'.chatId
        IN IF Match(chats, u, c) # {}
           THEN /\ chats' = chats \ {Doc(chats, u, c)}
                /\ Cardinality(chats') = Cardinality(chats) - 1
                /\ last'.status = 200
                /\ last'.message = "Chat deleted successfully"
           ELSE /\ chats' = chats
                /\ last'.status = 404
                /\ last'.message = "Chat not found"]_vars

\* A delete removed one of two documents of the same user.
C3_Witness ==
    /\ last.op = "delete"
    /\ last.status = 200
    /\ Cardinality(chats) = 1
    /\ Match(chats, last.userId, last.chatId) = {}
    /\ Find(chats, last.userId) # {}

\* A document without createdAt sorts after every document that has one.
Descending(d, e) ==
    IF "createdAt" \in DOMAIN d
    THEN "createdAt" \in DOMAIN e => d.createdAt >= e.createdAt
    ELSE "createdAt" \notin DOMAIN e

\* C7: a list for user u answers 200 with each document of u once, no
\* other document, createdAt non-increasing, and changes nothing.
C7_ListEffect ==
    [][ListStep =>
        LET u == last'.userId
            body == last'.body
            mine == {d \in chats : d.userId = u}
        IN /\ last'.status = 200
           /\ {body[k] : k \in DOMAIN body} = mine
           /\ Len(body) = Cardinality(mine)
           /\ \A j \in DOMAIN body, k \in DOMAIN body :
                 j < k => Descending(body[j], body[k])
           /\ chats' = chats]_vars

\* A list answered two documents of different createdAt.
C7_Witness ==
    /\ last.op = "list"
    /\ Len(last.body) = 2
    /\ "createdAt" \in DOMAIN last.body[1]
    /\ "createdAt" \in DOMAIN last.body[2]
    /\ last.body[1].createdAt > last.body[2].createdAt

\* s is the decimal notation of an integer: an optional "-", then digits.
DenotesInteger(s) ==
    LET body == IF s # <<>> /\ s[1] = "-" THEN Tail(s) ELSE s
    IN body # <<>> /\ \A k \in 1..Len(body) : body[k] \in Digits

\* The integer s denotes.
IntOf(s) ==
    IF s[1] = "-" THEN 0 - DigitsValue(Tail(s)) ELSE DigitsValue(s)

\* s denotes an integer in [0, n).
InRange(s, n) == DenotesInteger(s) /\ 0 <= IntOf(s) /\ IntOf(s) < n

\* The chat of (u, c) exists and has a messages array.
HasMessages(coll, u, c) ==
    Match(coll, u, c) # {} /\ "messages" \in DOMAIN Doc(coll, u, c)

\* C4: an edit at an integer index i in [0, messages.length) whose write
\* finds the chat as its read left it sets messages[i].content to the new
\* content and changes nothing else: not the other fields of messages[i],
\* not the other messages, their number or order, not the other fields of
\* the chat, not the other documents.
C4_EditEffect ==
    [][\A h \in Handlers :
         LET e == edits[h]
         IN (/\ EditWrite(h)
             /\ Match(chats, e.userId, e.chatId) # {}
             /\ Doc(chats, e.userId, e.chatId) = e.read
             /\ InRange(e.messageIndex, Len(e.read.messages)))
            => LET cur == e.read
                   new == Doc(chats', e.userId, e.chatId)
                   pos == IntOf(e.messageIndex) + 1
               IN /\ Others(chats', e.userId, e.chatId)
                       = Others(chats, e.userId, e.chatId)
                  /\ Cardinality(Match(chats', e.userId, e.chatId)) = 1
                  /\ DOMAIN new = DOMAIN cur
                  /\ \A f \in DOMAIN cur \ {"messages"} : new[f] = cur[f]
                  /\ Len(new.messages) = Len(cur.messages)
                  /\ \A k \in 1..Len(cur.messages) :
                        k # pos => new.messages[k] = cur.messages[k]
                  /\ new.messages[pos].content = e.content
                  /\ DOMAIN new.messages[pos] = DOMAIN cur.messages[pos]
                  /\ \A f \in DOMAIN cur.messages[pos] \ {"content"} :
                        new.messages[pos][f] = cur.messages[pos][f]]_vars

\* An edit of message 1 of a chat with createdAt was answered 200 beside
\* another document, with nothing between its read and its write.
C4_Witness ==
    /\ served = 3
    /\ Cardinality(chats) = 2
    /\ last.op = "save"
    /\ last.upsertedId # <<>>
    /\ \E h \in Handlers :
          /\ edits[h].pc = "done"
          /\ edits[h].status = 200
          /\ edits[h].messageIndex = <<"1">>
          /\ ~(last.chatData.userId = edits[h].userId
               /\ last.chatData.id = edits[h].chatId)
          /\ LET d == Doc(chats, edits[h].userId, edits[h].chatId)
             IN /\ "createdAt" \in DOMAIN d
                /\ d.messages[2].content = edits[h].content
                /\ d.messages[1].content # edits[h].content

C6_EditNeverCreates ==
    [][\A h \in Handlers :
         /\ (ReadStep(h) /\ Match(chats, edits'[h].userId, edits'[h].chatId) = {})
            => /\ edits'[h].pc = "done"
               /\ edits'[h].status = 404
               /\ edits'[h].message = "Chat not found"
         /\ ReadStep(h) => chats' = chats
         /\ EditWrite(h)
            => /\ Pairs(chats') = Pairs(chats)
               /\ Cardinality(chats') = Cardinality(chats)
               /\ Match(chats, edits[h].userId, edits[h].chatId) = {}
                  => /\ chats' = chats
                     /\ edits'[h].status = 404]_vars

\* An edit read its chat, the chat was deleted, and the edit's write was
\* answered 404 with the chat still absent.
C6_Witness ==
    /\ served = 3
    /\ last.op = "delete"
    /\ last.status = 200
    /\ \E h \in Handlers :
          /\ edits[h].pc = "done"
          /\ edits[h].status = 404
          /\ edits[h].message = "Chat not updated"
          /\ edits[h].messageIndex = <<"0">>
          /\ edits[h].userId = last.userId
          /\ edits[h].chatId = last.chatId
          /\ Match(chats, last.userId, last.chatId) = {}

\* The 1-based position messageIndex s addresses, as the handler finds it.
PosOf(s) == ParseInt(s).num + 1

\* Handler h is about to write, handler g was answered 200 for the same
\* chat at another index, the stored array holds g's content at g's index,
\* and the array h read does not: h read before g wrote.
StaleWrite(h, g) ==
    LET e == edits[h]
        o == edits[g]
    IN /\ g # h
       /\ e.pc = "write"
       /\ o.pc = "done"
       /\ o.status = 200
       /\ o.userId = e.userId
       /\ o.chatId = e.chatId
       /\ PosOf(o.messageIndex) # PosOf(e.messageIndex)
       /\ HasMessages(chats, e.userId, e.chatId)
       /\ LET cur == Doc(chats, e.userId, e.chatId).messages
              j == PosOf(o.messageIndex)
          IN /\ j <= Len(cur)
             /\ j <= Len(e.read.messages)
             /\ cur[j].content = o.content
             /\ e.read.messages[j].content # o.content

\* C8: when two edits of one chat at different indices have both read
\* before either writes, the second write puts back the whole array its
\* handler read: the first edit's content is replaced by the content read,
\* the second edit's content is in place, and the second edit is answered
\* 200 as the first was.
C8_LostUpdate ==
    [][\A h \in Handlers, g \in Handlers :
         (StaleWrite(h, g) /\ EditWrite(h))
         => LET e == edits[h]
                new == Doc(chats', e.userId, e.chatId).messages
                i == PosOf(e.messageIndex)
                j == PosOf(edits[g].messageIndex)
            IN /\ new = e.chat.messages
               /\ new[j].content = e.read.messages[j].content
               /\ new[j].content # edits[g].content
               /\ new[i].content = e.content
               /\ edits'[h].status = 200]_vars

\* One save and two edits, at indices 0 and 1, all answered 200, and the
\* array holds the new content at one index and the saved content at the
\* other.
C8_Witness ==
    /\ served = 3
    /\ \A h \in Handlers : edits[h].pc = "done" /\ edits[h].status = 200
    /\ edits[1].userId = edits[2].userId
    /\ edits[1].chatId = edits[2].chatId
    /\ edits[1].messageIndex = <<"0">>
    /\ edits[2].messageIndex = <<"1">>
    /\ edits[1].content = "b"
    /\ edits[2].content = "b"
    /\ LET d == Doc(chats, edits[1].userId, edits[1].chatId)
       IN d.messages = <<Msg("a"), Msg("b")>>

\* C9: the write of an edit is answered 200 'Message updated successfully'
\* exactly when it changed one document, else 404 'Chat not updated'; in
\* particular when the chat exists and the array written equals the array
\* stored, the answer is 404 and the document is unchanged.
C9_AnswerFollowsModified ==
    [][\A h \in Handlers :
         EditWrite(h)
         => LET e == edits[h]
                modified == /\ Cardinality(chats \ chats') = 1
                            /\ Cardinality(chats' \ chats) = 1
            IN /\ edits'[h].pc = "done"
               /\ modified \/ chats' = chats
               /\ modified
                  => /\ edits'[h].status = 200
                     /\ edits'[h].message = "Message updated successfully"
               /\ ~modified
                  => /\ edits'[h].status = 404
                     /\ edits'[h].message = "Chat not updated"
               /\ (/\ HasMessages(chats, e.userId, e.chatId)
                   /\ Doc(chats, e.userId, e.chatId).messages = e.chat.messages)
                  => /\ edits'[h].status = 404
                     /\ chats' = chats]_vars

\* An edit of message 0 with the content it already had was answered 404
\* 'Chat not updated'; the chat and the message exist.
C9_Witness ==
    /\ served = 2
    /\ \E h \in Handlers :
          /\ edits[h].pc = "done"
          /\ edits[h].status = 404
          /\ edits[h].message = "Chat not updated"
          /\ edits[h].messageIndex = <<"0">>
          /\ HasMessages(chats, edits[h].userId, edits[h].chatId)
          /\ Doc(chats, edits[h].userId, edits[h].chatId).messages[1].content
                = edits[h].content

\* C10 as stated: an edit whose messageIndex does not denote an integer
\* ('abc', '1abc') is rejected; no such request is ever answered 200.
C10_NonIntegerNeverAccepted ==
    \A h \in Handlers :
        (edits[h].pc = "done" /\ ~DenotesInteger(edits[h].messageIndex))
        => edits[h].status # 200

====
